---- MODULE Spec2Model ----
(***************************************************************************)
(* State-machine model of src/src/recorder.py: the InternetSpeedTest       *)
(* recorder, its SQLite measurement store and the __main__ script.         *)
(*                                                                         *)
(* Two specifications are given.  SpecMain is the standalone program of    *)
(* recorder.py lines 142-147.  Spec is a client that imports the class,    *)
(* constructs instances against one database path and calls the public     *)
(* operations in any order.                                                *)
(*                                                                         *)
(* Speeds in Mbps are represented in hundredths (52.0 Mbps is 5200), which *)
(* is exact for a value rounded to two decimals.                           *)
(***************************************************************************)
EXTENDS Integers, Sequences, FiniteSets

\* ------------------------------------------------------------------ bounds

\* Instances a client constructs in one process.
MaxInstances == 2

\* Public operations a client calls in one process.
MaxCalls == 6

\* ------------------------------------------------------------ data domains

\* Python's None, and a value that is present: an optional value is a sequence
\* of length at most one.
None == <<>>

Some(x) == <<x>>

Value(opt) == opt[1]

\* The table name of the CREATE TABLE statement.
ResultsTable == "results"

\* Record ids a client of the store may use as primary keys.
Ids == {"t1", "t2"}

Server(name, country, sponsor, id) ==
    [name |-> name, country |-> country, sponsor |-> sponsor, id |-> id]

RawResult(down, up, ping, server, ts, sent, received) ==
    [download |-> down, upload |-> up, ping |-> ping, server |-> server,
     timestamp |-> ts, bytes_sent |-> sent, bytes_received |-> received]

\* What speedtest's results.dict() may hold after a measurement: the raw
\* rates are bits per second.
RawResults ==
    { RawResult(52000000, 11400000, 18, Server("Hub", "DE", "ISP2", "7"),
                "2024-01-02T00:00:00Z", 1500, 2500),
      RawResult(33335000, 2675000, 25, Server("Hub", "DE", "ISP2", "7"),
                "2024-01-03T00:00:00Z", 1500, 2500),
      RawResult(80000000, 20000000, 12, Server("Acme", "US", "ISP1", "42"),
                "2024-01-01T00:00:00Z", 1000, 2000),
      RawResult(1234567, 125000, 30, Server("Acme", "US", "ISP1", "42"),
                "2024-01-04T00:00:00Z", 1000, 2000),
      RawResult(375000, 15000, 40, Server("Hub", "DE", "ISP2", "7"),
                "2024-01-05T00:00:00Z", 10, 20) }

\* ------------------------------------------------- round(bits / 1e6, 2)

RECURSIVE Pow2Mod25(_)
\* 2^t modulo 25.
Pow2Mod25(t) == IF t = 0 THEN 1 ELSE (2 * Pow2Mod25(t - 1)) % 25

RECURSIVE ExpUp(_, _)
\* For n >= 200: the e >= 0 with 200 * 2^e <= n < 200 * 2^(e+1).
ExpUp(n, p) == IF 2 * p <= n THEN 1 + ExpUp(n, 2 * p) ELSE 0

RECURSIVE ExpDown(_)
\* For 0 < n < 200: the least j >= 1 with n * 2^j >= 200.
ExpDown(n) == IF 2 * n >= 200 THEN 1 ELSE 1 + ExpDown(2 * n)

\* floor(log2(n / 200)) for n > 0: the binary exponent of the quotient.
BinaryExponent(n) == IF n >= 200 THEN ExpUp(n, 200) ELSE 0 - ExpDown(n)

\* The IEEE-754 double nearest to n/200 (n odd) compared with n/200 itself:
\* with t = 52 - 3 - exponent, the scaled quotient is n * 2^t / 25, and the
\* 53-bit significand is that value rounded to nearest.  The remainder
\* modulo 25 tells on which side of n/200 the double lies:
\* 0 exactly representable, 1..12 the double is below, 13..24 it is above.
DoubleRemainder(n) == ((n % 25) * Pow2Mod25(49 - BinaryExponent(n))) % 25

\* Python's round(x, 2) rounds the exact binary value of x correctly, ties
\* (possible only when that value is exactly representable) to even.
\* Division by 1e6 is correctly rounded, so the result differs from the
\* rounding of the rational bits/10^6 only at a decimal tie.
PyRoundHundredths(bits) ==
    IF bits % 10000 # 5000
    THEN (bits + 5000) \div 10000
    ELSE LET k == bits \div 10000
             r == DoubleRemainder(2 * k + 1)
         IN  IF r = 0 THEN (IF k % 2 = 0 THEN k ELSE k + 1)
             ELSE IF r <= 12 THEN k
             ELSE k + 1

\* round(bits / 1e6, 2), in hundredths of a Mbps.
RoundMbps(bits) == PyRoundHundredths(bits)

\* The dictionary extract_results builds from a raw result.
ExtractRecord(raw) ==
    [download_speed_mbps |-> RoundMbps(raw.download),
     upload_speed_mbps |-> RoundMbps(raw.upload),
     ping |-> raw.ping,
     server_name |-> raw.server.name,
     server_country |-> raw.server.country,
     server_sponsor |-> raw.server.sponsor,
     server_id |-> raw.server.id,
     timestamp |-> raw.timestamp,
     bytes_sent |-> raw.bytes_sent,
     bytes_received |-> raw.bytes_received]

\* ------------------------------------------------------------------ state

VARIABLES
    storage,    \* condition of the file system under db_path (environment)
    dbFile,     \* whether the database file exists
    tables,     \* names of the tables in the database
    rows,       \* rows of the results table: [id, rec]
    conns,      \* number of open sqlite3 connections
    inst,       \* number of InternetSpeedTest instances constructed
    results,    \* results[i]: self.results of instance i
    phase,      \* phase[i]: position of instance i in the measurement cycle
    pc,         \* control location: "caller", a step of an operation, "exited"
    self,       \* the instance of the operation called last (0: none yet)
    pending,    \* an exception propagating through a finally block
    exitStatus, \* process exit status once pc = "exited" (-1 while running)
    err,        \* the error that was detected, if any
    out,        \* lines printed by the operation called last
    ret,        \* value returned by the last direct extract_results call
    calls,      \* calls[op]: how often operation or facility step op started
    arg,        \* the id given to the last insert
    mainpc      \* position of the __main__ script (0: imported by a client)

vars == <<storage, dbFile, tables, rows, conns, inst, results, phase, pc,
          self, pending, exitStatus, err, out, ret, calls, arg, mainpc>>

Instances == 1 .. MaxInstances

\* The steps run_test takes through the measurement facility, in order.
Stages == <<"Speedtest", "get_servers", "get_best_server", "download", "upload">>

StageSet == { Stages[k] : k \in 1 .. Len(Stages) }

Operations == {"__init__", "run_test", "extract_results", "print_results", "insert"}

StorageConditions == {"ok", "unopenable", "readonly", "corrupt"}

\* A database as a process may find it: absent, empty, or holding the results
\* table with the rows earlier processes left.
InitialDbs ==
    { <<FALSE, {}, {}>>,
      <<TRUE, {}, {}>>,
      <<TRUE, {ResultsTable}, {}>>,
      <<TRUE, {ResultsTable},
        {[id |-> "t1", rec |-> ExtractRecord(CHOOSE raw \in RawResults : raw.ping = 18)]}>> }

NoCalls == [op \in Operations \cup StageSet |-> 0]

InitCommon ==
    /\ storage \in StorageConditions
    /\ \E db \in InitialDbs : dbFile = db[1] /\ tables = db[2] /\ rows = db[3]
    /\ conns = 0
    /\ inst = 0
    /\ results = [i \in Instances |-> None]
    /\ phase = [i \in Instances |-> "unborn"]
    /\ pc = "caller"
    /\ self = 0
    /\ pending = "none"
    /\ exitStatus = -1
    /\ err = "none"
    /\ out = <<>>
    /\ ret = None
    /\ calls = NoCalls
    /\ arg = "none"

\* The class imported by a client.
Init == InitCommon /\ mainpc = 0

\* The module run as a program.
InitMain == InitCommon /\ mainpc = 1

Called(op) == [calls EXCEPT ![op] = @ + 1]

\* sys.exit(1)
Exit1 == pc' = "exited" /\ exitStatus' = 1

\* ------------------------------------------------------------ environment

\* The file system under db_path degrades while the process runs.
StorageFails ==
    /\ pc # "exited"
    /\ storage = "ok"
    /\ \E s \in StorageConditions \ {"ok"} : storage' = s
    /\ UNCHANGED <<arg, dbFile, tables, rows, conns, inst, results, phase, pc, self,
                   pending, exitStatus, err, out, ret, calls, mainpc>>

\* ------------------------------------------------------ store: initialise

\* __init__ and check_db_exists_and_initialize, up to the call of
\* create_db_table.
Construct ==
    /\ pc = "caller"
    /\ inst < MaxInstances
    /\ inst' = inst + 1
    /\ results' = [results EXCEPT ![inst + 1] = None]
    /\ phase' = [phase EXCEPT ![inst + 1] = "Idle"]
    /\ self' = inst + 1
    /\ calls' = Called("__init__")
    /\ out' = <<IF dbFile THEN "Database exists" ELSE "Database does not exist">>
    /\ pc' = "connect"
    /\ UNCHANGED <<arg, storage, dbFile, tables, rows, conns, pending, exitStatus, err, ret>>

\* Whether sqlite3.connect(db_path) raises sqlite3.Error.
ConnectError(st, exists) ==
    \/ st = "unopenable"
    \/ st = "readonly" /\ ~exists

\* create_db_connection, the connection is returned.
ConnectOk ==
    /\ pc = "connect"
    /\ ~ConnectError(storage, dbFile)
    /\ conns' = conns + 1
    /\ dbFile' = TRUE
    /\ pc' = "execute"
    /\ UNCHANGED <<arg, storage, tables, rows, inst, results, phase, self, pending,
                   exitStatus, err, out, ret, calls, mainpc>>

\* The except branch prints the error and returns without sys.exit(1); the
\* caller goes on without a connection.
ConnectFailNoExit ==
    /\ pc = "connect"
    /\ ConnectError(storage, dbFile)
    /\ out' = Append(out, "Error connecting to database")
    /\ err' = "StorageError"
    /\ pc' = "caller"
    /\ UNCHANGED <<arg, storage, dbFile, tables, rows, conns, inst, results, phase,
                   self, pending, exitStatus, ret, calls, mainpc>>

\* create_db_connection, the except branch.
ConnectFail ==
    /\ pc = "connect"
    /\ ConnectError(storage, dbFile)
    /\ out' = Append(out, "Error connecting to database")
    /\ err' = "StorageError"
    /\ Exit1
    /\ UNCHANGED <<arg, storage, dbFile, tables, rows, conns, inst, results, phase,
                   self, pending, ret, calls, mainpc>>

\* CREATE TABLE results (...) without IF NOT EXISTS.
CreateTableErrorNoGuard(tbls, st) ==
    \/ st = "corrupt"
    \/ st = "readonly" /\ ResultsTable \notin tbls
    \/ ResultsTable \in tbls

\* Whether executing CREATE TABLE IF NOT EXISTS results (...) raises
\* sqlite3.Error: the file is no database, or the table must be written and
\* the database is read-only.
CreateTableError(tbls, st) ==
    \/ st = "corrupt"
    \/ st = "readonly" /\ ResultsTable \notin tbls

\* create_db_table, the try block.
ExecuteOk ==
    /\ pc = "execute"
    /\ ~CreateTableError(tables, storage)
    /\ tables' = tables \cup {ResultsTable}
    /\ pc' = "close"
    /\ UNCHANGED <<arg, storage, dbFile, rows, conns, inst, results, phase, self,
                   pending, exitStatus, err, out, ret, calls, mainpc>>

\* create_db_table, the except branch: sys.exit(1) raises SystemExit, which
\* leaves through the finally block.
ExecuteFail ==
    /\ pc = "execute"
    /\ CreateTableError(tables, storage)
    /\ out' = Append(out, "Error creating table")
    /\ err' = "StorageError"
    /\ pending' = "SystemExit"
    /\ pc' = "close"
    /\ UNCHANGED <<arg, storage, dbFile, tables, rows, conns, inst, results, phase,
                   self, exitStatus, ret, calls, mainpc>>

\* conn.close() placed after the try statement instead of in a finally block.
CloseConnNoFinally ==
    /\ pc = "close"
    /\ IF pending = "SystemExit"
       THEN Exit1 /\ UNCHANGED conns
       ELSE conns' = conns - 1 /\ pc' = "caller" /\ UNCHANGED exitStatus
    /\ UNCHANGED <<arg, storage, dbFile, tables, rows, inst, results, phase, self, pending,
                   err, out, ret, calls, mainpc>>

\* create_db_table, the finally block, then the return or the exit.
CloseConn ==
    /\ pc = "close"
    /\ conns' = conns - 1
    /\ IF pending = "SystemExit"
       THEN Exit1
       ELSE pc' = "caller" /\ UNCHANGED exitStatus
    /\ UNCHANGED <<arg, storage, dbFile, tables, rows, inst, results, phase, self, pending,
                   err, out, ret, calls, mainpc>>

\* ---------------------------------------------------------------- run_test

StageIndex(st) == CHOOSE k \in 1 .. Len(Stages) : Stages[k] = st

\* Where control goes when facility step st returns normally.
AfterStage(st) ==
    IF StageIndex(st) < Len(Stages) THEN Stages[StageIndex(st) + 1] ELSE "store_results"

\* run_test clears self.results before it measures.
RunTestClearsResult(i) ==
    /\ pc = "caller"
    /\ i \in 1 .. inst
    /\ self' = i
    /\ calls' = Called("run_test")
    /\ phase' = [phase EXCEPT ![i] = "Measuring"]
    /\ results' = [results EXCEPT ![i] = None]
    /\ out' = <<>>
    /\ pc' = Stages[1]
    /\ UNCHANGED <<arg, storage, dbFile, tables, rows, conns, inst, pending,
                   exitStatus, err, ret>>

\* run_test is entered by instance i.
RunTest(i) ==
    /\ pc = "caller"
    /\ i \in 1 .. inst
    /\ self' = i
    /\ calls' = Called("run_test")
    /\ phase' = [phase EXCEPT ![i] = "Measuring"]
    /\ out' = <<>>
    /\ pc' = Stages[1]
    /\ UNCHANGED <<arg, storage, dbFile, tables, rows, conns, inst, results, pending,
                   exitStatus, err, ret>>

\* A facility step (the Speedtest constructor, get_servers, get_best_server,
\* download, upload) returns normally.
StageOk ==
    /\ pc \in StageSet
    /\ calls' = Called(pc)
    /\ pc' = AfterStage(pc)
    /\ UNCHANGED <<arg, storage, dbFile, tables, rows, conns, inst, results, phase,
                   self, pending, exitStatus, err, out, ret, mainpc>>

\* The except branch keeps whatever the facility had measured so far.
StageFailKeepsPartial ==
    /\ pc \in StageSet
    /\ calls' = Called(pc)
    /\ out' = Append(out, "Error performing speed test")
    /\ err' = "MeasurementError"
    /\ phase' = [phase EXCEPT ![self] = "Failed"]
    /\ \E raw \in RawResults : results' = [results EXCEPT ![self] = Some(raw)]
    /\ Exit1
    /\ UNCHANGED <<arg, storage, dbFile, tables, rows, conns, inst, self, pending,
                   ret, mainpc>>

\* A facility step raises SpeedtestException: the except branch of run_test.
StageFail ==
    /\ pc \in StageSet
    /\ calls' = Called(pc)
    /\ out' = Append(out, "Error performing speed test")
    /\ err' = "MeasurementError"
    /\ phase' = [phase EXCEPT ![self] = "Failed"]
    /\ Exit1
    /\ UNCHANGED <<arg, storage, dbFile, tables, rows, conns, inst, results, self,
                   pending, ret, mainpc>>

\* self.results = s.results.dict(), and run_test returns.
StoreResults ==
    /\ pc = "store_results"
    /\ \E raw \in RawResults : results' = [results EXCEPT ![self] = Some(raw)]
    /\ phase' = [phase EXCEPT ![self] = "Completed"]
    /\ pc' = "caller"
    /\ UNCHANGED <<arg, storage, dbFile, tables, rows, conns, inst, self, pending,
                   exitStatus, err, out, ret, calls, mainpc>>

\* ------------------------------------------- extract_results, print_results

\* extract_results without its guard prints nothing when no result is held.
ExtractResultsSilent(r) ==
    IF r = None
    THEN [value |-> None, printed |-> <<>>]
    ELSE [value |-> Some(ExtractRecord(Value(r))), printed |-> <<>>]

\* extract_results on self.results = r: the value returned and the lines
\* printed.
ExtractResults(r) ==
    IF r = None
    THEN [value |-> None, printed |-> <<"No results to extract">>]
    ELSE [value |-> Some(ExtractRecord(Value(r))), printed |-> <<>>]

ResultLines ==
    <<"Internet Speed Test Results:", "Download Speed", "Upload Speed", "Ping",
      "Server Name", "Server Country", "Server Sponsor", "Test Time">>

\* extract_results called by the client on instance i.
Extract(i) ==
    /\ pc = "caller"
    /\ i \in 1 .. inst
    /\ self' = i
    /\ calls' = Called("extract_results")
    /\ ret' = ExtractResults(results[i]).value
    /\ out' = ExtractResults(results[i]).printed
    /\ UNCHANGED <<arg, storage, dbFile, tables, rows, conns, inst, results, phase,
                   pc, pending, exitStatus, err>>

\* print_results on instance i; it calls extract_results itself when a result
\* is held.
PrintResults(i) ==
    /\ pc = "caller"
    /\ i \in 1 .. inst
    /\ self' = i
    /\ IF results[i] = None
       THEN /\ calls' = Called("print_results")
            /\ out' = <<"No results available">>
       ELSE /\ calls' = [calls EXCEPT !["print_results"] = @ + 1,
                                      !["extract_results"] = @ + 1]
            /\ out' = ExtractResults(results[i]).printed \o
                      (IF ExtractResults(results[i]).value # None
                       THEN ResultLines
                       ELSE <<"No results to display">>)
    /\ UNCHANGED <<arg, storage, dbFile, tables, rows, conns, inst, results, phase,
                   pc, pending, exitStatus, err, ret>>

\* ------------------------------------------------------------ store: insert

\* The results table declared without a primary key.
PrimaryKeyViolatedNoKey(rs, id) == FALSE

\* id TEXT PRIMARY KEY: a row with this id is already in the table.
PrimaryKeyViolated(rs, id) == \E r \in rs : r.id = id

\* insert(record) of the measurement store, for the record the client got from
\* extract_results, under the id the client chose.  The connection is opened
\* and closed within the operation; a duplicate key is fatal.
Insert(id) ==
    /\ pc = "caller"
    /\ mainpc = 0
    /\ ret # None
    /\ storage = "ok"
    /\ ResultsTable \in tables
    /\ calls' = Called("insert")
    /\ arg' = id
    /\ out' = <<>>
    /\ IF PrimaryKeyViolated(rows, id)
       THEN /\ err' = "DuplicateKeyError"
            /\ Exit1
            /\ UNCHANGED rows
       ELSE /\ rows' = rows \cup {[id |-> id, rec |-> Value(ret)]}
            /\ UNCHANGED <<pc, exitStatus, err>>
    /\ UNCHANGED <<storage, dbFile, tables, conns, inst, results, phase, self,
                   pending, ret, mainpc>>

\* ------------------------------------------------------- client of the class

CallsMade ==
    calls["__init__"] + calls["run_test"] + calls["extract_results"]
        + calls["print_results"] + calls["insert"]

ApiConstruct == mainpc = 0 /\ CallsMade < MaxCalls /\ Construct /\ UNCHANGED mainpc

ApiRunTest == mainpc = 0 /\ CallsMade < MaxCalls /\ \E i \in Instances : RunTest(i) /\ UNCHANGED mainpc

ApiExtract == mainpc = 0 /\ CallsMade < MaxCalls /\ \E i \in Instances : Extract(i) /\ UNCHANGED mainpc

ApiPrint == mainpc = 0 /\ CallsMade < MaxCalls /\ \E i \in Instances : PrintResults(i) /\ UNCHANGED mainpc

ApiInsert == CallsMade < MaxCalls /\ \E id \in Ids : Insert(id)

\* The client's program ends normally.
Finish ==
    /\ mainpc = 0
    /\ pc = "caller"
    /\ pc' = "exited"
    /\ exitStatus' = 0
    /\ UNCHANGED <<arg, storage, dbFile, tables, rows, conns, inst, results, phase,
                   self, pending, err, out, ret, calls, mainpc>>

\* ------------------------------------------------------------------ __main__

\* run_test and extract_results exchanged.
MainOrderSwapped == <<"__init__", "extract_results", "run_test", "print_results">>

\* The statements of the script, in order.
MainOrder == <<"__init__", "run_test", "extract_results", "print_results">>

\* speed_test = InternetSpeedTest()
MainConstruct ==
    /\ mainpc \in 1 .. Len(MainOrder)
    /\ MainOrder[mainpc] = "__init__"
    /\ Construct
    /\ mainpc' = mainpc + 1

\* speed_test.run_test()
MainRunTest ==
    /\ mainpc \in 1 .. Len(MainOrder)
    /\ MainOrder[mainpc] = "run_test"
    /\ RunTest(inst)
    /\ mainpc' = mainpc + 1

\* results = speed_test.extract_results()
MainExtract ==
    /\ mainpc \in 1 .. Len(MainOrder)
    /\ MainOrder[mainpc] = "extract_results"
    /\ Extract(inst)
    /\ mainpc' = mainpc + 1

\* if results: speed_test.print_results()
MainPrint ==
    /\ mainpc \in 1 .. Len(MainOrder)
    /\ MainOrder[mainpc] = "print_results"
    /\ IF ret # None
       THEN PrintResults(inst)
       ELSE pc = "caller" /\ UNCHANGED <<arg, storage, dbFile, tables, rows, conns,
                                         inst, results, phase, pc, self, pending,
                                         exitStatus, err, out, ret, calls>>
    /\ mainpc' = mainpc + 1

\* The script has run to its end: the interpreter exits with status 0.
MainEnd ==
    /\ mainpc = Len(MainOrder) + 1
    /\ pc = "caller"
    /\ pc' = "exited"
    /\ exitStatus' = 0
    /\ UNCHANGED <<arg, storage, dbFile, tables, rows, conns, inst, results, phase,
                   self, pending, err, out, ret, calls, mainpc>>

\* ----------------------------------------------------------- specifications

Next ==
    \/ StorageFails
    \/ ConnectOk
    \/ ConnectFail
    \/ ExecuteOk
    \/ ExecuteFail
    \/ CloseConn
    \/ StageOk
    \/ StageFail
    \/ StoreResults
    \/ ApiConstruct
    \/ ApiRunTest
    \/ ApiExtract
    \/ ApiPrint
    \/ ApiInsert
    \/ Finish

NextMain ==
    \/ StorageFails
    \/ ConnectOk
    \/ ConnectFail
    \/ ExecuteOk
    \/ ExecuteFail
    \/ CloseConn
    \/ StageOk
    \/ StageFail
    \/ StoreResults
    \/ MainConstruct
    \/ MainRunTest
    \/ MainExtract
    \/ MainPrint
    \/ MainEnd

Spec == Init /\ [][Next]_vars

SpecMain == InitMain /\ [][NextMain]_vars

\* ------------------------------------------------------------------ claims

InitSteps == {"connect", "execute", "close"}

RunSteps == StageSet \cup {"store_results"}

\* C1 as stated: the script runs store initialization, run_test,
\* extract_results and print_results in this order, each step at most once,
\* none before the one before it has finished, and print_results only after
\* extract_results returned a record.
C1_EachStepOnce ==
    /\ \A op \in {"__init__", "run_test", "extract_results", "print_results"} :
          calls[op] <= 1
    /\ pc \in InitSteps =>
          calls["run_test"] = 0 /\ calls["extract_results"] = 0 /\ calls["print_results"] = 0
    /\ pc \in RunSteps => calls["extract_results"] = 0 /\ calls["print_results"] = 0
    /\ calls["run_test"] >= 1 => calls["__init__"] = 1
    /\ calls["extract_results"] >= 1 => calls["run_test"] = 1 /\ phase[1] = "Completed"
    /\ calls["print_results"] >= 1 => calls["extract_results"] >= 1 /\ ret # None

\* C1 (amended): the script runs store initialization, run_test,
\* extract_results and print_results in this order, each invoked by the script
\* at most once and none before the one before it has finished; print_results
\* runs only after extract_results returned a record, and it executes
\* extract_results once more itself, so that a full cycle ends with status 0
\* after two executions of extract_results.
C1_MainCycle ==
    /\ \A op \in {"__init__", "run_test", "print_results"} : calls[op] <= 1
    /\ calls["extract_results"] <= 1 + calls["print_results"]
    /\ pc \in InitSteps =>
          calls["run_test"] = 0 /\ calls["extract_results"] = 0 /\ calls["print_results"] = 0
    /\ pc \in RunSteps => calls["extract_results"] = 0 /\ calls["print_results"] = 0
    /\ calls["run_test"] >= 1 => calls["__init__"] = 1
    /\ calls["extract_results"] >= 1 => calls["run_test"] = 1 /\ phase[1] = "Completed"
    /\ calls["print_results"] >= 1 => calls["extract_results"] = 2 /\ ret # None
    /\ exitStatus = 0 =>
          /\ calls["__init__"] = 1
          /\ calls["run_test"] = 1
          /\ calls["print_results"] = 1
          /\ calls["extract_results"] = 2

\* The script has completed a full cycle and printed the result lines.
C1_Witness ==
    /\ exitStatus = 0
    /\ calls["print_results"] = 1
    /\ out = ResultLines

\* C2: when a facility step of run_test fails, the process ends at once with
\* status 1, the instance holds no result, no row is written and no facility
\* step has run more than once; nothing runs after the exit.
C2_MeasurementFailureFatal ==
    [][/\ pc # "exited"
       /\ (err' = "MeasurementError" /\ err = "none") =>
             /\ pc \in StageSet
             /\ pc' = "exited"
             /\ exitStatus' = 1
             /\ results' = results
             /\ results'[self'] = None
             /\ rows' = rows
             /\ \A st \in StageSet : calls'[st] <= 1
    ]_vars

\* The download step failed after server discovery and selection succeeded.
C2_Witness ==
    /\ err = "MeasurementError"
    /\ pc = "exited"
    /\ calls["download"] = 1
    /\ calls["upload"] = 0

\* C3 as stated: when the script has completed a successful measurement cycle,
\* the store holds a row equal to the extracted record.
C3_RecordPersisted ==
    (exitStatus = 0 /\ ret # None) => \E r \in rows : r.rec = Value(ret)

\* C4: an insert under an id the table already holds fails with
\* DuplicateKeyError and leaves the rows as they were; an insert under a new id
\* adds exactly one row holding the record, whether or not a row with the same
\* measurement is already there; ids stay unique.
C4_PrimaryKey ==
    [][calls'["insert"] = calls["insert"] + 1 =>
          /\ IF \E r \in rows : r.id = arg'
             THEN rows' = rows /\ err' = "DuplicateKeyError" /\ exitStatus' = 1
             ELSE /\ rows' = rows \cup {[id |-> arg', rec |-> Value(ret)]}
                  /\ Cardinality(rows') = Cardinality(rows) + 1
                  /\ err' = "none"
                  /\ pc' = "caller"
          /\ \A r, q \in rows' : r.id = q.id => r = q
    ]_vars

\* The same measurement is stored under two ids, and a third insert under one
\* of them was refused.
C4_Witness ==
    /\ err = "DuplicateKeyError"
    /\ \E r, q \in rows : r.id # q.id /\ r.rec = q.rec

\* C5: however often the store is initialized, the steps of initialization
\* change no row and add no table but results, raise no error while the storage
\* is healthy or merely read-only with the table in place, and leave exactly
\* the results table when initialization returns.
C5_InitIdempotent ==
    [][(pc \in InitSteps) =>
          /\ rows' = rows
          /\ tables' \subseteq {ResultsTable}
          /\ (storage = "ok" \/ (storage = "readonly" /\ ResultsTable \in tables)) =>
                err' = err /\ pc' # "exited"
          /\ pc' = "caller" => tables' = {ResultsTable}
    ]_vars

\* A second instance was constructed over a table that already held rows.
C5_Witness ==
    /\ calls["__init__"] = 2
    /\ pc = "caller"
    /\ err = "none"
    /\ rows # {}
    /\ tables = {ResultsTable}

\* C6: on an instance on which run_test was never called, extract_results
\* returns None and prints its diagnostic, print_results prints its diagnostic
\* and no result line (nor does it extract), and neither raises an error or
\* ends the process.
C6_FreshInstanceSafe ==
    [][/\ (/\ calls'["extract_results"] = calls["extract_results"] + 1
           /\ calls'["print_results"] = calls["print_results"]
           /\ phase[self'] = "Idle") =>
             /\ ret' = None
             /\ out' = <<"No results to extract">>
             /\ err' = err
             /\ pc' = "caller"
       /\ (/\ calls'["print_results"] = calls["print_results"] + 1
           /\ phase[self'] = "Idle") =>
             /\ out' = <<"No results available">>
             /\ calls'["extract_results"] = calls["extract_results"]
             /\ ret' = ret
             /\ err' = err
             /\ pc' = "caller"
    ]_vars

\* Both operations were called while no instance had measured; the last call
\* was print_results.
C6_Witness ==
    /\ inst >= 1
    /\ \A i \in 1 .. inst : phase[i] = "Idle"
    /\ calls["extract_results"] >= 1
    /\ calls["print_results"] >= 1
    /\ ret = None
    /\ out = <<"No results available">>
    /\ pc = "caller"

\* bits / 10^6 rounded to hundredths, ties upward.
RoundHalfUp(bits) == (bits + 5000) \div 10000

\* bits / 10^6 rounded to hundredths, ties to the even hundredth.
RoundHalfEven(bits) ==
    IF bits % 10000 = 5000 /\ (bits \div 10000) % 2 = 0
    THEN bits \div 10000
    ELSE (bits + 5000) \div 10000

\* Both speeds of record rec are the rates of raw rounded with ties upward.
RoundedHalfUp(raw, rec) ==
    /\ rec.download_speed_mbps = RoundHalfUp(raw.download)
    /\ rec.upload_speed_mbps = RoundHalfUp(raw.upload)

\* Both speeds of record rec are the rates of raw rounded with ties to even.
RoundedHalfEven(raw, rec) ==
    /\ rec.download_speed_mbps = RoundHalfEven(raw.download)
    /\ rec.upload_speed_mbps = RoundHalfEven(raw.upload)

\* C7 as stated: the speeds of an extracted record are the raw rates divided
\* by 1,000,000 and rounded to two decimals by one rule (ties upward, or ties
\* to even); 52,000,000 gives 52.0, 11,400,000 gives 11.4 and 33,335,000 gives
\* 33.34.
C7_ConsistentRounding ==
    ret # None =>
        LET raw == Value(results[1])
            rec == Value(ret)
        IN  /\ RoundedHalfUp(raw, rec) \/ RoundedHalfEven(raw, rec)
            /\ raw.download = 52000000 => rec.download_speed_mbps = 5200
            /\ raw.upload = 11400000 => rec.upload_speed_mbps = 1140
            /\ raw.download = 33335000 => rec.download_speed_mbps = 3334

Allowed == {<<"unborn", "Idle">>, <<"Idle", "Measuring">>,
            <<"Measuring", "Completed">>, <<"Measuring", "Failed">>}

\* C8 as stated: an instance moves Idle -> Measuring -> Completed or
\* Idle -> Measuring -> Failed and nowhere else, only run_test leaves Idle, and
\* a raw result is held exactly when the instance is Completed.
C8_SingleMeasurement ==
    [][\A i \in Instances :
          /\ phase'[i] # phase[i] => <<phase[i], phase'[i]>> \in Allowed
          /\ (phase[i] = "Idle" /\ phase'[i] # "Idle") =>
                calls'["run_test"] = calls["run_test"] + 1
          /\ results'[i] # None <=> phase'[i] = "Completed"
    ]_vars

\* C8 (amended): an instance moves Idle -> Measuring -> Completed or Failed,
\* and run_test may be called again on a Completed instance (Completed ->
\* Measuring); only run_test leaves Idle or Completed; no result is held before
\* the first completion, one is held whenever the instance is Completed, and
\* the held result changes only when a measurement completes, so a repeated
\* measurement that is running or has failed leaves the earlier result.
C8_RepeatableMeasurement ==
    [][\A i \in Instances :
          /\ phase'[i] # phase[i] =>
                <<phase[i], phase'[i]>> \in Allowed \cup {<<"Completed", "Measuring">>}
          /\ (phase[i] \in {"Idle", "Completed"} /\ phase'[i] # phase[i]) =>
                calls'["run_test"] = calls["run_test"] + 1
          /\ phase'[i] \in {"unborn", "Idle"} => results'[i] = None
          /\ phase'[i] = "Completed" => results'[i] # None
          /\ results'[i] # results[i] =>
                phase[i] = "Measuring" /\ phase'[i] = "Completed"
    ]_vars

\* One instance measured twice, and its repeated measurement is under way with
\* the first result still held.
C8_Witness ==
    /\ inst = 1
    /\ calls["run_test"] = 2
    /\ phase[1] = "Measuring"
    /\ results[1] # None

\* C9: once the store could not be opened or the table not be created, the
\* process is on its way out (closing the connection) or has ended with status
\* 1; initialization ran once, and neither run_test nor any facility step has
\* started.
C9_StorageFailureFatal ==
    err = "StorageError" =>
        /\ pc \in {"close", "exited"}
        /\ pc = "close" => pending = "SystemExit"
        /\ pc = "exited" => exitStatus = 1
        /\ calls["__init__"] = 1
        /\ calls["run_test"] = 0
        /\ \A st \in StageSet : calls[st] = 0

\* The database could not be opened and the process has ended.
C9_Witness ==
    /\ err = "StorageError"
    /\ pc = "exited"
    /\ exitStatus = 1
    /\ out = <<"Database exists", "Error connecting to database">>

\* C10: a connection is open only inside create_db_table, between the connect
\* and the close; none is open when control is back with the caller, inside
\* another operation, or when the process has ended, and never more than one.
C10_NoConnectionLeak ==
    /\ conns \in {0, 1}
    /\ conns = 1 => pc \in {"execute", "close"}
    /\ pc \in {"caller", "exited"} \cup RunSteps => conns = 0

\* Table creation failed after the connection was opened, and the process has
\* ended.
C10_Witness ==
    /\ pc = "exited"
    /\ pending = "SystemExit"
    /\ conns = 0

====
